---- MODULE Spec2Model ----
(***************************************************************************)
(* Joybait backend (src/main.py, src/schemas.py): challenge rotation,      *)
(* reflection submission with XP / streak accrual, profile badges and the  *)
(* public gallery, over a document store with per-document atomic          *)
(* operations.                                                             *)
(*                                                                         *)
(* Time.  An instant (datetime.now(timezone.utc)) is a number of ticks     *)
(* since 0001-01-01T00:00Z, TicksPerDay ticks to the calendar day.         *)
(* Date(t) is the proleptic Gregorian ordinal of the instant's UTC date,   *)
(* which is both what .date() compares and what .toordinal() returns.      *)
(*                                                                         *)
(* Every read of the clock returns an instant no earlier than the last one *)
(* read (the variable clock); time that passes between two reads is part   *)
(* of the later read, or a step of its own (Tick).                         *)
(*                                                                         *)
(* Documents.  A collection is the sequence of its documents in insertion  *)
(* order; a document's _id is its position.  create_document stamps        *)
(* created_at; since inserts are atomic and the clock does not go back,    *)
(* created_at is kept as the logical creation time (the insertion number). *)
(* Only the fields a handler reads or filters on are kept.                 *)
(*                                                                         *)
(* Optional values (Python None) are sequences of length 0 or 1:           *)
(* <<>> is None and <<v>> is the value v.                                  *)
(*                                                                         *)
(* Request payloads are the ones the request models accept with field      *)
(* values that pass the schemas of src/schemas.py.                         *)
(***************************************************************************)
EXTENDS Integers, Sequences, FiniteSets, TLC

VARIABLES
    dbUp,         \* database.db is not None (fixed at import)
    clock,        \* the latest instant read from the wall clock, in ticks
    users,        \* collection "user"
    reflections,  \* collection "reflection"
    calls,        \* per worker thread: the submit_reflection call in progress
    resp          \* the last completed request: operation, locals, response

vars == <<dbUp, clock, users, reflections, calls, resp>>

\* ---------------------------------------------------------------- bounds

TicksPerDay == 2
MaxClock == 6
MaxUsers == 1
MaxRefs == 3
MaxStored == 52
MaxXp == 8
MaxStreak == 8

\* ------------------------------------------------------ program constants

RepeatXp == 5
FirstXp == 10
GalleryCap == 50
RecentCount == 5

None == <<>>
Some(v) == <<v>>

Min(a, b) == IF a <= b THEN a ELSE b

Modes == {"casual", "challenge"}

\* ids a request may name: every id the store can assign, and one it never does
ReqUserIds == 1..(MaxUsers + 1)

\* worker threads serving requests concurrently
Procs == {1, 2}

SEED_CHALLENGES == <<
    [id |-> "c1", mood |-> "social",    environment |-> "public", confidence |-> 2],
    [id |-> "c2", mood |-> "social",    environment |-> "public", confidence |-> 3],
    [id |-> "c3", mood |-> "solo",      environment |-> "public", confidence |-> 1],
    [id |-> "c4", mood |-> "uplifting", environment |-> "home",   confidence |-> 1] >>

BADGES == <<
    [id |-> "first",   requirement |-> 1],
    [id |-> "week1",   requirement |-> 7],
    [id |-> "streak5", requirement |-> 5] >>

\* request field values: absent, the empty string, tags of the catalog, a tag of none
MoodInputs == {None, Some(""), Some("social"), Some("solo")}
EnvInputs == {None, Some(""), Some("public"), Some("work")}
ConfInputs == {None, Some(0), Some(2), Some(3)}
LimitInputs == {-3, 0, 1, 3, 20, 50, 51, 1000}

\* ------------------------------------------------------------------ time

Date(t) == 1 + (t \div TicksPerDay)

\* ----------------------------------------------------------------- store

NewUser(mode) ==
    [mode |-> mode, xp |-> 0, streak |-> 0, last_completed_at |-> None]

NewReflection(uid, pub) == [user_id |-> uid, is_public |-> pub]

CreateDocument(coll, doc) ==
    Append(coll, [f \in DOMAIN doc \cup {"_id", "created_at"} |->
                    IF f \in DOMAIN doc THEN doc[f] ELSE Len(coll) + 1])

FindOne(us, uid) == IF uid \in DOMAIN us THEN Some(us[uid]) ELSE None

\* $set in place of $inc for xp
UpdateOneSetXp(us, uid, now, streak, xp_gain) ==
    IF uid \in DOMAIN us
    THEN [us EXCEPT ![uid] = [@ EXCEPT !.last_completed_at = Some(now),
                                       !.streak = streak,
                                       !.xp = xp_gain]]
    ELSE us

UpdateOne(us, uid, now, streak, xp_gain) ==
    IF uid \in DOMAIN us
    THEN [us EXCEPT ![uid] = [@ EXCEPT !.last_completed_at = Some(now),
                                       !.streak = streak,
                                       !.xp = @ + xp_gain]]
    ELSE us

SetModeUpdate(us, uid, mode) ==
    IF uid \in DOMAIN us
    THEN [us EXCEPT ![uid] = [@ EXCEPT !.mode = Some(mode)]]
    ELSE us

RECURSIVE InsertNewest(_, _)
InsertNewest(d, sorted) ==
    IF sorted = <<>> THEN <<d>>
    ELSE IF d.created_at > Head(sorted).created_at THEN <<d>> \o sorted
    ELSE <<Head(sorted)>> \o InsertNewest(d, Tail(sorted))

\* cursor.sort("created_at", -1)
RECURSIVE SortNewestFirst(_)
SortNewestFirst(docs) ==
    IF docs = <<>> THEN <<>>
    ELSE InsertNewest(Head(docs), SortNewestFirst(Tail(docs)))

\* cursor.limit(n): 0 is no limit, a negative n is the limit -n in one batch
CursorLimit(docs, n) ==
    LET k == IF n < 0 THEN 0 - n ELSE n IN
    IF n = 0 \/ k >= Len(docs) THEN docs ELSE SubSeq(docs, 1, k)

FindPublic(refs) ==
    LET Test(d) == d.is_public IN SelectSeq(refs, Test)

FindByUser(refs, uid) ==
    LET Test(d) == d.user_id = uid IN SelectSeq(refs, Test)

\* ------------------------------------------------------------- challenges

Truthy(s) == s # None /\ s[1] # ""

\* the environment filter skipped
CandidatesNoEnv(f) ==
    LET ByMood(c) == c.mood = f.mood[1]
        ByMin(c) == c.confidence >= f.confidence_min[1]
        ByMax(c) == c.confidence <= f.confidence_max[1]
        c0 == SEED_CHALLENGES
        c1 == IF Truthy(f.mood) THEN SelectSeq(c0, ByMood) ELSE c0
        c3 == IF f.confidence_min # None THEN SelectSeq(c1, ByMin) ELSE c1
    IN  IF f.confidence_max # None THEN SelectSeq(c3, ByMax) ELSE c3

Candidates(f) ==
    LET ByMood(c) == c.mood = f.mood[1]
        ByEnv(c) == c.environment = f.environment[1]
        ByMin(c) == c.confidence >= f.confidence_min[1]
        ByMax(c) == c.confidence <= f.confidence_max[1]
        c0 == SEED_CHALLENGES
        c1 == IF Truthy(f.mood) THEN SelectSeq(c0, ByMood) ELSE c0
        c2 == IF Truthy(f.environment) THEN SelectSeq(c1, ByEnv) ELSE c1
        c3 == IF f.confidence_min # None THEN SelectSeq(c2, ByMin) ELSE c2
    IN  IF f.confidence_max # None THEN SelectSeq(c3, ByMax) ELSE c3

\* the day number divided by the count instead of taken modulo it
DayIndexQuotient(ordinal, n) == (ordinal \div n) % n

DayIndex(ordinal, n) == ordinal % n

\* --------------------------------------------------------------- accrual

LastDate(doc) ==
    IF doc.last_completed_at = None
    THEN None
    ELSE Some(Date(doc.last_completed_at[1]))

\* the same-day branch not taken: every completion counts as a first one
AccrueNoRepeat(doc, today) ==
    LET last_date == LastDate(doc) IN
    [xp_gain |-> FirstXp,
     streak  |-> IF last_date # None /\ today - last_date[1] = 1
                 THEN doc.streak + 1
                 ELSE 1]

\* a gap keeps the streak going: >= 1 in place of == 1
AccrueGapContinues(doc, today) ==
    LET last_date == LastDate(doc) IN
    IF last_date = Some(today)
    THEN [xp_gain |-> RepeatXp, streak |-> doc.streak]
    ELSE [xp_gain |-> FirstXp,
          streak  |-> IF last_date # None /\ today - last_date[1] >= 1
                      THEN doc.streak + 1
                      ELSE 1]

Accrue(doc, today) ==
    LET last_date == LastDate(doc) IN
    IF last_date = Some(today)
    THEN [xp_gain |-> RepeatXp, streak |-> doc.streak]
    ELSE [xp_gain |-> FirstXp,
          streak  |-> IF last_date # None /\ today - last_date[1] = 1
                      THEN doc.streak + 1
                      ELSE 1]

\* the document of the naive lookup of line 202 kept and updated
ReflectUsersNaive(us, uid, today, now) ==
    IF us # <<>>
    THEN LET a == Accrue(us[1], today) IN
         UpdateOne(us, 1, now, a.streak, a.xp_gain)
    ELSE us

\* accrual recomputed from the stored document at the time of the write
CallAccrualFresh(us, c) == Accrue(us[c.user_id], c.today)

\* the accrual of a call in progress: from the document it read
CallAccrual(us, c) == Accrue(c.user_doc[1], c.today)

\* the user collection after the accrual part of submit_reflection
ReflectUsers(us, uid, today, now) ==
    LET user_doc == FindOne(us, uid) IN
    IF user_doc # None
    THEN LET a == Accrue(user_doc[1], today) IN
         UpdateOne(us, uid, now, a.streak, a.xp_gain)
    ELSE us

\* --------------------------------------------------------------- profile

\* both thresholds required: and in place of or
ProfileBadgesBoth(xp, streak) ==
    LET Has(b) == xp >= b.requirement /\ streak >= b.requirement
    IN  SelectSeq(BADGES, Has)

ProfileBadges(xp, streak) ==
    LET Has(b) == xp >= b.requirement \/ streak >= b.requirement
    IN  SelectSeq(BADGES, Has)

\* the fields of a reflection a response carries
Summary(docs) ==
    [i \in DOMAIN docs |-> [id |-> docs[i]._id,
                            created_at |-> docs[i].created_at]]

RecentReflections(refs, uid) ==
    Summary(CursorLimit(SortNewestFirst(FindByUser(refs, uid)), RecentCount))

GalleryDocs(refs, limit) ==
    Summary(CursorLimit(SortNewestFirst(FindPublic(refs)),
                        Min(limit, GalleryCap)))

\* ------------------------------------------------------------- operations

IdleCall == [pc |-> "idle"]
NoResp == [op |-> "none"]

Init ==
    /\ dbUp \in BOOLEAN
    /\ clock = 0
    /\ users = <<>>
    /\ reflections = <<>>
    /\ calls = [p \in Procs |-> IdleCall]
    /\ resp = NoResp

Signup ==
    \E mode \in {None} \cup {Some(m) : m \in Modes} :
        /\ Len(users) < MaxUsers
        /\ IF dbUp
           THEN /\ users' = CreateDocument(users, NewUser(mode))
                /\ resp' = [op |-> "signup", status |-> 200,
                            user_id |-> Len(users) + 1]
           ELSE /\ users' = users
                /\ resp' = [op |-> "signup", status |-> 500]
        /\ UNCHANGED <<dbUp, clock, reflections, calls>>

\* line 155 builds its filter through a method the store object may lack;
\* the request then ends in a 500 with nothing written (applied = FALSE)
SetMode ==
    \E uid \in ReqUserIds, mode \in Modes, applied \in BOOLEAN :
        /\ IF dbUp /\ applied
           THEN /\ users' = SetModeUpdate(users, uid, mode)
                /\ resp' = [op |-> "set_mode", status |-> 200, mode |-> mode]
           ELSE /\ users' = users
                /\ resp' = [op |-> "set_mode", status |-> 500]
        /\ UNCHANGED <<dbUp, clock, reflections, calls>>

\* one whole submit_reflection call, no other request in between.
\* t1 is the clock read of line 206, t2 the one of line 223.
SubmitWith(pubs) ==
    \E uid \in ReqUserIds, pub \in pubs,
       t1 \in clock..MaxClock, t2 \in clock..MaxClock :
        /\ t1 <= t2
        /\ Len(reflections) < MaxRefs
        /\ IF dbUp
           THEN LET user_doc == FindOne(users, uid)
                    today == Date(t1)
                    found == user_doc # None
                IN  /\ reflections' = CreateDocument(reflections,
                                                     NewReflection(uid, pub))
                    /\ users' = ReflectUsers(users, uid, today, t2)
                    /\ clock' = IF found THEN t2 ELSE t1
                    /\ resp' = [op |-> "reflect", status |-> 200,
                                reflection_id |-> Len(reflections) + 1,
                                user_id |-> uid, user_doc |-> user_doc,
                                today |-> today,
                                now |-> IF found THEN Some(t2) ELSE None]
           ELSE /\ resp' = [op |-> "reflect", status |-> 500]
                /\ UNCHANGED <<clock, users, reflections>>
        /\ UNCHANGED <<dbUp, calls>>

\* is_public left at its default
SubmitReflection == SubmitWith({FALSE})

Next == Signup \/ SetMode \/ SubmitReflection

Spec == Init /\ [][Next]_vars

\* time passing between two requests
Tick ==
    /\ clock < MaxClock
    /\ clock' = clock + 1
    /\ UNCHANGED <<dbUp, users, reflections, calls, resp>>

\* the clock is read (line 180) only when a candidate is left
GetNextChallenge ==
    \E mood \in MoodInputs, env \in EnvInputs,
       cmin \in ConfInputs, cmax \in ConfInputs :
        LET filters == [mood |-> mood, environment |-> env,
                        confidence_min |-> cmin, confidence_max |-> cmax]
            candidates == Candidates(filters)
            idx == DayIndex(Date(clock), Len(candidates))
            \* history: the previous answer, when it was to the same filters
            prev == IF /\ resp.op = "challenge" /\ resp.status = 200
                       /\ resp.filters = filters
                    THEN Some([today |-> resp.today, idx |-> resp.idx,
                               body |-> resp.body])
                    ELSE None
        IN  /\ IF candidates = <<>>
               THEN /\ resp' = [op |-> "challenge", status |-> 404,
                                filters |-> filters]
               ELSE /\ resp' = [op |-> "challenge", status |-> 200,
                                filters |-> filters, today |-> Date(clock),
                                idx |-> idx, body |-> candidates[idx + 1],
                                prev |-> prev]
            /\ UNCHANGED <<dbUp, clock, users, reflections, calls>>

NextCatalog == Tick \/ GetNextChallenge

\* the catalog never touches the store: one value of dbUp is enough
InitUp == Init /\ dbUp

SpecCatalog == InitUp /\ [][NextCatalog]_vars

GetProfile ==
    \E uid \in ReqUserIds :
        LET user == FindOne(users, uid) IN
        /\ resp' = IF ~dbUp THEN [op |-> "profile", status |-> 500]
                   ELSE IF user = None THEN [op |-> "profile", status |-> 404]
                   ELSE [op |-> "profile", status |-> 200, user_id |-> uid,
                         xp |-> user[1].xp, streak |-> user[1].streak,
                         badges |-> ProfileBadges(user[1].xp, user[1].streak),
                         recent |-> RecentReflections(reflections, uid)]
        /\ UNCHANGED <<dbUp, clock, users, reflections, calls>>

Gallery ==
    \E limit \in LimitInputs :
        /\ resp' = IF ~dbUp THEN [op |-> "gallery", status |-> 500]
                   ELSE [op |-> "gallery", status |-> 200, limit |-> limit,
                         body |-> GalleryDocs(reflections, limit)]
        /\ UNCHANGED <<dbUp, clock, users, reflections, calls>>

\* is_public as the payload gives it
SubmitShared == SubmitWith(BOOLEAN)

\* the reflection collection after n calls of submit_reflection, from the
\* two users in turn, every k-th of them private (k = 0: all public)
RECURSIVE StoredReflections(_, _)
StoredReflections(n, k) ==
    IF n = 0 THEN <<>>
    ELSE CreateDocument(StoredReflections(n - 1, k),
                        NewReflection(1 + (n % 2), k = 0 \/ n % k # 0))

\* a store already in use: one user document, reflections on file
InitProfile ==
    /\ dbUp = TRUE
    /\ clock = 0
    /\ \E xp \in 0..MaxXp, streak \in 0..MaxStreak :
          users = CreateDocument(<<>>,
                     [mode |-> None, xp |-> xp, streak |-> streak,
                      last_completed_at |->
                          IF streak = 0 THEN None ELSE Some(0)])
    /\ \E n \in 0..(RecentCount + 2) : reflections = StoredReflections(n, 0)
    /\ calls = [p \in Procs |-> IdleCall]
    /\ resp = NoResp

NextProfile == GetProfile

SpecProfile == InitProfile /\ [][NextProfile]_vars

InitGallery ==
    /\ dbUp \in BOOLEAN
    /\ clock = 0
    /\ users = <<>>
    /\ \E n \in 0..MaxStored, k \in 0..3 :
          reflections = IF dbUp THEN StoredReflections(n, k) ELSE <<>>
    /\ calls = [p \in Procs |-> IdleCall]
    /\ resp = NoResp

NextGallery == Gallery \/ SubmitShared

SpecGallery == InitGallery /\ [][NextGallery]_vars

\* ---------------------------------------------- submit_reflection, by step
\* Requests run on worker threads; each store operation is atomic, the
\* handler as a whole is not.  Each thread of Procs serves one request.

\* line 196: the reflection is inserted
CallInsert(p) ==
    \E uid \in ReqUserIds :
        /\ dbUp
        /\ calls[p].pc = "idle"
        /\ Len(reflections) < MaxRefs
        /\ reflections' = CreateDocument(reflections, NewReflection(uid, FALSE))
        /\ calls' = [calls EXCEPT ![p] = [pc |-> "find", user_id |-> uid]]
        /\ UNCHANGED <<dbUp, clock, users, resp>>

\* line 204: the user document is read
CallFind(p) ==
    /\ calls[p].pc = "find"
    /\ calls' = [calls EXCEPT ![p] =
                    [pc |-> "today", user_id |-> calls[p].user_id,
                     user_doc |-> FindOne(users, calls[p].user_id)]]
    /\ UNCHANGED <<dbUp, clock, users, reflections, resp>>

\* line 206: today is taken from the clock; line 208: without a user, return
CallToday(p) ==
    \E now \in clock..MaxClock :
        /\ calls[p].pc = "today"
        /\ clock' = now
        /\ calls' = [calls EXCEPT ![p] =
                        [pc |-> IF calls[p].user_doc = None
                                THEN "done" ELSE "update",
                         user_id |-> calls[p].user_id,
                         user_doc |-> calls[p].user_doc,
                         today |-> Date(now)]]
        /\ UNCHANGED <<dbUp, users, reflections, resp>>

\* lines 209-225: the accrual from the document read, written with update_one
CallUpdate(p) ==
    \E now \in clock..MaxClock :
        /\ calls[p].pc = "update"
        /\ clock' = now
        /\ LET a == CallAccrual(users, calls[p]) IN
           users' = UpdateOne(users, calls[p].user_id, now, a.streak, a.xp_gain)
        /\ calls' = [calls EXCEPT ![p].pc = "done"]
        /\ UNCHANGED <<dbUp, reflections, resp>>

NextConc ==
    \/ Signup
    \/ \E p \in Procs : CallInsert(p)
    \/ \E p \in Procs : CallFind(p)
    \/ \E p \in Procs : CallToday(p)
    \/ \E p \in Procs : CallUpdate(p)

SpecConc == InitUp /\ [][NextConc]_vars

\* ------------------------------------------------------------ properties

\* the last request was a submit_reflection that found its user
Accrued == resp.op = "reflect" /\ resp.status = 200 /\ resp.user_doc # None

SameDay(doc, today) ==
    doc.last_completed_at # None /\ Date(doc.last_completed_at[1]) = today

DayGap(doc, today) == today - Date(doc.last_completed_at[1])

\* C1: a submit_reflection for a stored user whose last_completed_at is on
\* today's UTC date adds exactly 5 to xp, leaves streak as it was and sets
\* last_completed_at to the instant of the write, the current instant.
C1_SameDayRepeat ==
    (Accrued /\ SameDay(resp.user_doc[1], resp.today)) =>
        LET before == resp.user_doc[1]
            after == users[resp.user_id]
        IN  /\ after.xp = before.xp + 5
            /\ after.streak = before.streak
            /\ after.last_completed_at = resp.now
            /\ resp.now = Some(clock)

C1_Witness ==
    /\ Accrued
    /\ SameDay(resp.user_doc[1], resp.today)
    /\ resp.user_doc[1].last_completed_at[1] < resp.now[1]
    /\ users[resp.user_id].xp = resp.user_doc[1].xp + 5

\* C2: a submit_reflection for a stored user whose last completion is not on
\* today's UTC date adds exactly 10 to xp; streak becomes the previous streak
\* plus 1 when the last completion date is exactly one day before today, and
\* exactly 1 in every other case (a gap of two days or more, no completion yet).
C2_NewDay ==
    (Accrued /\ ~SameDay(resp.user_doc[1], resp.today)) =>
        LET before == resp.user_doc[1]
            after == users[resp.user_id]
            continues == /\ before.last_completed_at # None
                         /\ DayGap(before, resp.today) = 1
        IN  /\ after.xp = before.xp + 10
            /\ continues => after.streak = before.streak + 1
            /\ ~continues => after.streak = 1

C2_Witness ==
    /\ Accrued
    /\ resp.user_doc[1].last_completed_at # None
    /\ DayGap(resp.user_doc[1], resp.today) >= 2
    /\ resp.user_doc[1].streak >= 2
    /\ users[resp.user_id].streak = 1

C3_Step ==
    \A u \in DOMAIN users :
        /\ u \in DOMAIN users'
        /\ users'[u].xp >= users[u].xp
        /\ users'[u].xp >= 0
        /\ users'[u].streak >= 0
        /\ \/ users'[u].streak = users[u].streak
           \/ users'[u].streak = users[u].streak + 1
           \/ users'[u].streak = 1

\* C3: in every step of a sequence of signup, set_mode and submit_reflection
\* requests no stored user's xp decreases or is negative, and a stored user's
\* streak is never negative and either stays, grows by exactly 1 or becomes 1.
C3_Monotone == [][C3_Step]_vars

C3_Witness ==
    /\ resp.op = "set_mode" /\ resp.status = 200
    /\ \E u \in DOMAIN users :
        /\ users[u].mode = Some(resp.mode)
        /\ users[u].streak = 2
        /\ users[u].xp >= 25

\* a submit_reflection step, store available, for an id no user document has
UnknownUserStep ==
    /\ dbUp
    /\ resp' # resp
    /\ resp'.op = "reflect"
    /\ resp'.user_id \notin DOMAIN users

\* C4: with the store available, a submit_reflection whose user_id matches no
\* stored user still persists the reflection and answers with its id, raises
\* no error, and leaves every user document as it was.
C4_UnknownUser ==
    [][UnknownUserStep =>
        /\ resp'.status = 200
        /\ Len(reflections') = Len(reflections) + 1
        /\ resp'.reflection_id = Len(reflections')
        /\ reflections'[Len(reflections')]._id = resp'.reflection_id
        /\ reflections'[Len(reflections')].user_id = resp'.user_id
        /\ SubSeq(reflections', 1, Len(reflections)) = reflections
        /\ users' = users]_vars

C4_Witness ==
    /\ resp.op = "reflect" /\ resp.status = 200
    /\ resp.user_doc = None
    /\ reflections[resp.reflection_id].user_id = resp.user_id
    /\ \E u \in DOMAIN users : users[u].xp > 0 /\ u # resp.user_id

\* C10: in every accrual the stored last_completed_at is on the UTC date that
\* was used as today to choose the XP / streak branch.
C10_OneNow ==
    Accrued =>
        Date(users[resp.user_id].last_completed_at[1]) = resp.today

Seeds == {SEED_CHALLENGES[i] : i \in DOMAIN SEED_CHALLENGES}

\* c passes every filter of f that is present (not None)
PassesSupplied(c, f) ==
    /\ f.mood # None => c.mood = f.mood[1]
    /\ f.environment # None => c.environment = f.environment[1]
    /\ f.confidence_min # None => c.confidence >= f.confidence_min[1]
    /\ f.confidence_max # None => c.confidence <= f.confidence_max[1]

\* the same, an empty-string mood or environment counting as absent
PassesNonEmpty(c, f) ==
    /\ (f.mood # None /\ f.mood # Some("")) => c.mood = f.mood[1]
    /\ (f.environment # None /\ f.environment # Some(""))
            => c.environment = f.environment[1]
    /\ f.confidence_min # None => c.confidence >= f.confidence_min[1]
    /\ f.confidence_max # None => c.confidence <= f.confidence_max[1]

\* C5 as stated: get_next_challenge answers 404 exactly when no challenge
\* passes every supplied filter, and a challenge it returns passes every
\* supplied mood, environment, confidence_min and confidence_max filter.
C5_Original ==
    resp.op = "challenge" =>
        /\ resp.status = 404 <=>
                ~ \E c \in Seeds : PassesSupplied(c, resp.filters)
        /\ resp.status = 200 =>
                resp.body \in Seeds /\ PassesSupplied(resp.body, resp.filters)

\* C5 amended: the same with a mood or environment given as the empty string
\* treated as not supplied.
C5_NoMatch ==
    resp.op = "challenge" =>
        /\ resp.status \in {200, 404}
        /\ resp.status = 404 <=>
                ~ \E c \in Seeds : PassesNonEmpty(c, resp.filters)
        /\ resp.status = 200 =>
                resp.body \in Seeds /\ PassesNonEmpty(resp.body, resp.filters)

C5_Witness ==
    /\ resp.op = "challenge" /\ resp.status = 404
    /\ resp.filters.mood = Some("solo")
    /\ resp.filters.environment = Some("public")
    /\ resp.filters.confidence_min = Some(2)
    /\ resp.filters.confidence_max = None

\* the challenges passing f, in catalog order
InCatalogOrder(f) ==
    LET Test(c) == PassesNonEmpty(c, f) IN SelectSeq(SEED_CHALLENGES, Test)

\* C6: the challenge returned is the one at position (ordinal of the UTC date)
\* modulo (candidate count) of the filtered candidates in catalog order; two
\* answers to the same filters on the same date are the same challenge, and on
\* consecutive dates, with more than one candidate, the index differs.
C6_Rotation ==
    (resp.op = "challenge" /\ resp.status = 200) =>
        LET seq == InCatalogOrder(resp.filters) IN
        /\ resp.idx = resp.today % Len(seq)
        /\ resp.body = seq[(resp.today % Len(seq)) + 1]
        /\ resp.prev # None =>
             /\ resp.prev[1].today = resp.today
                    => resp.prev[1].body = resp.body
             /\ (resp.prev[1].today + 1 = resp.today /\ Len(seq) > 1)
                    => resp.prev[1].idx # resp.idx

C6_Witness ==
    /\ resp.op = "challenge" /\ resp.status = 200
    /\ resp.prev # None
    /\ resp.prev[1].today + 1 = resp.today
    /\ Len(InCatalogOrder(resp.filters)) = 3
    /\ resp.prev[1].idx = 2 /\ resp.idx = 0

Range(seq) == {seq[i] : i \in DOMAIN seq}

BadgeIndex(b) == CHOOSE i \in DOMAIN BADGES : BADGES[i] = b

\* C7: get_profile returns, in the order of BADGES, exactly the badges whose
\* requirement is <= the user's xp or <= the user's streak; with more xp or a
\* longer streak none of the returned badges is lost.
C7_Badges ==
    (resp.op = "profile" /\ resp.status = 200) =>
        /\ resp.xp = users[resp.user_id].xp
        /\ resp.streak = users[resp.user_id].streak
        /\ \A b \in Range(BADGES) :
              b \in Range(resp.badges)
                  <=> (b.requirement <= resp.xp \/ b.requirement <= resp.streak)
        /\ Range(resp.badges) \subseteq Range(BADGES)
        /\ \A i, j \in DOMAIN resp.badges :
              i < j => BadgeIndex(resp.badges[i]) < BadgeIndex(resp.badges[j])
        /\ \A x \in resp.xp..(resp.xp + MaxXp),
              s \in resp.streak..(resp.streak + MaxStreak) :
              Range(resp.badges) \subseteq Range(ProfileBadges(x, s))

C7_Witness ==
    /\ resp.op = "profile" /\ resp.status = 200
    /\ resp.xp = 0 /\ resp.streak = 5
    /\ Len(resp.badges) = 2
    /\ resp.badges[1].id = "first" /\ resp.badges[2].id = "streak5"

\* C8: for every requested limit, gallery returns only reflections with
\* is_public true, newest first, and at most min(limit, 50) of them, never
\* more than 50.
C8_GalleryCap ==
    (resp.op = "gallery" /\ resp.status = 200) =>
        /\ \A i \in DOMAIN resp.body :
              /\ resp.body[i].id \in DOMAIN reflections
              /\ reflections[resp.body[i].id].is_public
        /\ \A i, j \in DOMAIN resp.body :
              i < j => resp.body[i].created_at >= resp.body[j].created_at
        /\ resp.limit >= 0 => Len(resp.body) <= Min(resp.limit, 50)
        /\ Len(resp.body) <= 50

\* the number of submit_reflection calls made for user u so far
CallsFor(u) ==
    Cardinality({i \in DOMAIN reflections : reflections[i].user_id = u})

\* p and q are the only two calls made for their user, both have returned,
\* and both updated it from the same document read
Raced(p, q) ==
    /\ p # q
    /\ calls[p].pc = "done" /\ calls[q].pc = "done"
    /\ calls[p].user_id = calls[q].user_id
    /\ calls[p].user_doc # None
    /\ calls[p].user_doc = calls[q].user_doc
    /\ CallsFor(calls[p].user_id) = 2

DayStart(day) == (day - 1) * TicksPerDay

\* one whole call made on date d1, then one whole call made on date d2
Serial(doc, d1, d2) ==
    ReflectUsers(ReflectUsers(<<doc>>, 1, d1, DayStart(d1)),
                 1, d2, DayStart(d2))[1]

\* the two calls read the same document, on one date, a date after the
\* document's last completion date
RacedOnNewDay(p, q) ==
    /\ Raced(p, q)
    /\ calls[p].today = calls[q].today
    /\ ~SameDay(calls[p].user_doc[1], calls[p].today)

\* C9: the read and the write of the user document in submit_reflection are
\* separate steps: when two calls for one user both read the document before
\* either writes it, on a date after its last completion, each is granted the
\* first-of-the-day XP (xp + 20 in all), which is not what the two calls give
\* when run one after the other (xp + 15).
C9_StaleSnapshot ==
    \A p, q \in Procs :
        RacedOnNewDay(p, q) =>
            LET doc == calls[p].user_doc[1]
                after == users[calls[p].user_id]
                serial == Serial(doc, calls[p].today, calls[q].today)
            IN  /\ after.xp = doc.xp + 20
                /\ serial.xp = doc.xp + 15
                /\ after.xp # serial.xp

C9_Witness ==
    \E p, q \in Procs :
        /\ RacedOnNewDay(p, q)
        /\ users[calls[p].user_id].xp = 20

====
